---- MODULE Spec2Model ----
(***************************************************************************)
(* A model of sharrow's diagram builder, make_graph (src/sharrow/viz.py).  *)
(*                                                                         *)
(* make_graph reads a data tree (a graph of named datasets, its            *)
(* relationships, the subspace of every dataset and an optional root) and  *)
(* builds a graphviz description: one node per dataset, with an HTML-like  *)
(* table label whose cells carry ports, and one edge per relationship,     *)
(* bound to a variable port of the parent and a dimension port of the      *)
(* child.                                                                  *)
(*                                                                         *)
(* The function is sequential.  Each of its passes is one action:          *)
(*   SeedNodes   lines 22-35    g_nodes is filled, the root first          *)
(*   RecordVars  lines 36-39    parent_name is added to the parent's vars  *)
(*   AddNodes    lines 121-130  a labelled node per entry of g_nodes       *)
(*   AddEdges    lines 132-146  an edge per relationship, then return      *)
(* A failed lookup (KeyError) ends the call with nothing returned.         *)
(*                                                                         *)
(* Strings built by f"dim{name}" and f"var{name}" are modelled as the      *)
(* pairs <<"dim", name>> and <<"var", name>>: prefixing by a fixed word.   *)
(***************************************************************************)
EXTENDS Integers, Sequences, FiniteSets, TLC

\* ------------------------------------------------------------ input universe

Datasets == {"A", "B"}
VarNames == {"u", "v"}
DimNames == {"x", "y"}
\* the names child_name is drawn from: "x" is a dimension of some of the
\* subspaces tried and of none of the others
ChildNames == {"x"}
Indexings == {"label", "position", "other"}

\* root_node_name when no root is designated (a falsy value)
NoRoot == "None"

\* the largest number of relationships of a data tree
MaxEdges == 2

\* the largest number of builds of one data tree
MaxBuilds == 2

VARIABLES
    nodes,           \* datatree._graph.nodes : the datasets, in insertion order
    edges,           \* datatree._graph.edges : the relationships (a set-like view)
    subspaces,       \* datatree.subspaces    : dataset -> its dimension names
    root_node_name,  \* datatree.root_node_name
    hashseed,        \* the interpreter's string hash seed: orders every set of str
    pc,              \* position in make_graph
    g_nodes,         \* the local dict g_nodes, in insertion order
    g,               \* the AGraph under construction; returned when pc = "done"
    prev,            \* the description returned by the previous build
    builds           \* the number of builds started

tree == <<nodes, edges, subspaces, root_node_name>>
vars == <<nodes, edges, subspaces, root_node_name, hashseed, pc, g_nodes, g, prev, builds>>

\* ------------------------------------------------------------------ helpers

Range(s) == {s[i] : i \in 1..Len(s)}

Max(a, b) == IF a >= b THEN a ELSE b

RECURSIVE DistinctSeqs(_, _)
\* the sequences of at most n elements of S, no element twice
DistinctSeqs(S, n) ==
    IF n = 0 THEN {<<>>}
    ELSE LET shorter == DistinctSeqs(S, n - 1)
         IN  shorter \cup
             UNION {{Append(s, x) : x \in S \ Range(s)} : s \in shorter}

RECURSIVE SetsUpTo(_, _)
\* the subsets of S of at most n elements
SetsUpTo(S, n) ==
    IF n = 0 THEN {{}}
    ELSE LET smaller == SetsUpTo(S, n - 1)
         IN  smaller \cup UNION {{T \cup {x} : x \in S \ T} : T \in smaller}

\* --------------------------------------------------------- the data tree

\* a Relationship, as _get_relationship returns it
Relationship(pd, pn, cd, cn, ix) ==
    [parent_data |-> pd, parent_name |-> pn,
     child_data |-> cd, child_name |-> cn, indexing |-> ix]

\* the relationships a graph over the datasets N can hold: an edge of a graph
\* joins two of its nodes
RelationshipsOver(N) ==
    {Relationship(pd, pn, cd, cn, ix) :
        pd \in N, pn \in VarNames, cd \in N, cn \in ChildNames, ix \in Indexings}

\* list(subspace.dims): the dimension names of a dataset, each once; the
\* lists tried have 0, 1 and 2 names
DimLists == {<<>>, <<"x">>, <<"y">>, <<"x", "y">>}

\* the values of datatree.root_node_name tried
Roots == {NoRoot, "A"}

\* a string hash seed fixes the order in which a set of str is iterated
HashSeeds == {s \in DistinctSeqs(VarNames, Cardinality(VarNames)) :
                 Len(s) = Cardinality(VarNames)}

\* datatree._get_relationship(e): the Relationship an edge resolves to
get_relationship(e) == e

\* repr(rel): the text of a Relationship names its indexing and both ends
Repr(rel) ==
    <<rel.indexing, rel.parent_data, rel.parent_name,
      rel.child_data, rel.child_name>>

\* ------------------------------------------------------- Python collections

\* iteration over a set of str: the order the hash seed gives
SetIter(S, seed) == SelectSeq(seed, LAMBDA n : n \in S)

\* the position of key k in an insertion-ordered dict d, 0 when absent
DictIndex(d, k) ==
    IF \E i \in 1..Len(d) : d[i].k = k
    THEN CHOOSE i \in 1..Len(d) : d[i].k = k
    ELSE 0

DictHas(d, k) == DictIndex(d, k) # 0

\* d[k] = val: a new key goes last, a known key keeps its place
DictSet(d, k, val) ==
    LET entry == [k |-> k, dims |-> val.dims, vars |-> val.vars]
    IN  IF DictHas(d, k)
        THEN [d EXCEPT ![DictIndex(d, k)] = entry]
        ELSE Append(d, entry)

\* zip_longest(a, b, fillvalue=fill)
zip_longest(a, b, fill) ==
    [i \in 1..Max(Len(a), Len(b)) |->
        <<IF i <= Len(a) THEN a[i] ELSE fill,
          IF i <= Len(b) THEN b[i] ELSE fill>>]

\* ------------------------------------------------------------- node labels

NoPort == <<>>

\* f"dim{_d}" and f"var{_v}"
DimPort(d) == <<"dim", d>>
VarPort(v) == <<"var", v>>
HeaderPort == <<"f0">>

TD(port, text) == [port |-> port, text |-> text]

\* <TR> with the column titles, and <TR> with a dimension or variable in it
TitleRow(tds) == [kind |-> "title", tds |-> tds]
AttrRow(tds) == [kind |-> "attr", tds |-> tds]

\* lines 62-88: one row of the two-column table
PairedRow(d, v) ==
    IF d = ""
    THEN AttrRow(<<TD(NoPort, ""), TD(VarPort(v), v)>>)
    ELSE IF v = ""
    THEN AttrRow(<<TD(DimPort(d), d), TD(NoPort, "")>>)
    ELSE AttrRow(<<TD(DimPort(d), d), TD(VarPort(v), v)>>)

\* lines 51-104: the rows below the header
LabelCells(v, seed) ==
    LET vs == SetIter(v.vars, seed)
        zipped == zip_longest(v.dims, vs, "")
    IN  IF Len(v.dims) > 0 /\ Cardinality(v.vars) > 0
        THEN <<TitleRow(<<TD(NoPort, "DIMENSIONS"), TD(NoPort, "VARIABLES")>>)>>
             \o [i \in 1..Len(zipped) |-> PairedRow(zipped[i][1], zipped[i][2])]
        ELSE IF Len(v.dims) > 0 /\ Cardinality(v.vars) = 0
        THEN <<TitleRow(<<TD(NoPort, "DIMENSIONS")>>)>>
             \o [i \in 1..Len(v.dims) |->
                    AttrRow(<<TD(DimPort(v.dims[i]), v.dims[i])>>)]
        ELSE <<>>

\* lines 50-119: the label of node k
node_label(k, v, seed) ==
    [header |-> TD(HeaderPort, k), cells |-> LabelCells(v, seed)]

\* ---------------------------------------------------------------- AGraph

\* viz.AGraph(rankdir="LR", strict=False, ...): no node, no edge
EmptyGraph == [nodes |-> <<>>, edges |-> {}]

\* the label of a node that add_edge created
NoLabel == [header |-> TD(NoPort, ""), cells |-> <<>>]

GraphHasNode(gr, k) == \E i \in 1..Len(gr.nodes) : gr.nodes[i].id = k

\* g.add_node(k, label=..., shape="plaintext"): a known node keeps its place
add_node(gr, k, label) ==
    LET n == [id |-> k, label |-> label, shape |-> "plaintext"]
    IN  IF GraphHasNode(gr, k)
        THEN [gr EXCEPT !.nodes =
                 [i \in 1..Len(gr.nodes) |->
                     IF gr.nodes[i].id = k THEN n ELSE gr.nodes[i]]]
        ELSE [gr EXCEPT !.nodes = Append(gr.nodes, n)]

\* a build that marks the other indexing mode with the diamond
ArrowHeadSwapped(rel) ==
    IF rel.indexing = "position" THEN "odiamond" ELSE "normal"

\* line 143
ArrowHead(rel) == IF rel.indexing = "label" THEN "odiamond" ELSE "normal"

\* a build that keys an edge by its two ends alone
EdgeKeyEnds(rel) == <<rel.parent_data, rel.child_data>>

\* line 139
EdgeKey(rel) == Repr(rel)

\* lines 136-144: the edge of one relationship
EdgeOf(rel) ==
    [tail |-> rel.parent_data, head |-> rel.child_data, key |-> EdgeKey(rel),
     tailport |-> VarPort(rel.parent_name),
     headport |-> DimPort(rel.child_name),
     dir |-> "forward", arrowhead |-> ArrowHead(rel)]

\* g.add_edge(u, v, key=...) on a non-strict graph: missing end nodes are
\* created, and an edge with the ends and key of a known edge is that edge
add_edge(gr, e) ==
    LET withTail == IF GraphHasNode(gr, e.tail) THEN gr
                    ELSE [gr EXCEPT !.nodes =
                             Append(gr.nodes, [id |-> e.tail, label |-> NoLabel,
                                               shape |-> "default"])]
        withEnds == IF GraphHasNode(withTail, e.head) THEN withTail
                    ELSE [withTail EXCEPT !.nodes =
                             Append(withTail.nodes,
                                    [id |-> e.head, label |-> NoLabel,
                                     shape |-> "default"])]
        same(f) == f.tail = e.tail /\ f.head = e.head /\ f.key = e.key
    IN  [withEnds EXCEPT !.edges = {f \in withEnds.edges : ~same(f)} \cup {e}]

\* ------------------------------------------------------------ make_graph

\* a build that seeds the graph's nodes in the graph's order, and the root
\* only after them
SeedKeysGraphOrder ==
    nodes \o (IF root_node_name # NoRoot /\ root_node_name \notin Range(nodes)
              THEN <<root_node_name>> ELSE <<>>)

\* a build that seeds the root and the datasets some edge joins, and no other
SeedKeysConnected ==
    (IF root_node_name # NoRoot THEN <<root_node_name>> ELSE <<>>)
    \o SelectSeq(nodes, LAMBDA k :
           /\ k # root_node_name
           /\ \E e \in edges : k \in {e.parent_data, e.child_data})

\* lines 24-35: the keys assigned into g_nodes, in the order of assignment
SeedKeys ==
    (IF root_node_name # NoRoot THEN <<root_node_name>> ELSE <<>>)
    \o SelectSeq(nodes, LAMBDA k : k # root_node_name)

\* a build that gives a dataset without a subspace no dimensions
SubspaceLookupDefault(k) ==
    [found |-> TRUE,
     dims |-> IF k \in DOMAIN subspaces THEN subspaces[k] ELSE <<>>]

\* list(datatree.subspaces[k].dims): KeyError (found = FALSE) unless k is a
\* key of the mapping
SubspaceLookup(k) ==
    IF k \in DOMAIN subspaces
    THEN [found |-> TRUE, dims |-> subspaces[k]]
    ELSE [found |-> FALSE, dims |-> <<>>]

RECURSIVE Seeded(_, _)
\* g_nodes after the assignments of keys[i..]
Seeded(d, keys) ==
    IF keys = <<>> THEN d
    ELSE Seeded(DictSet(d, Head(keys),
                        [dims |-> SubspaceLookup(Head(keys)).dims, vars |-> {}]),
                Tail(keys))

\* lines 22-35
SeedNodes ==
    /\ pc = "start"
    /\ IF Len(nodes) = 0
       THEN /\ g_nodes' = <<>>
            /\ pc' = "vars"
       ELSE IF \E i \in 1..Len(SeedKeys) : ~SubspaceLookup(SeedKeys[i]).found
       THEN /\ g_nodes' = <<>>
            /\ pc' = "KeyError"
       ELSE /\ g_nodes' = Seeded(<<>>, SeedKeys)
            /\ pc' = "vars"
    /\ UNCHANGED <<tree, hashseed, g, prev, builds>>

\* a build that records the variable on the child's side
VarsTargetChild(rel) == rel.child_data

\* line 39: the node whose vars the relationship adds to, and the name added
VarsTarget(rel) == rel.parent_data
VarsName(rel) == rel.parent_name

\* d[k]["vars"].add(name)
VarsAdd(d, k, name) ==
    [d EXCEPT ![DictIndex(d, k)].vars = @ \cup {name}]

RECURSIVE Recorded(_, _)
\* lines 36-39: g_nodes after the loop over the edges E
Recorded(d, E) ==
    IF E = {} THEN d
    ELSE LET e == CHOOSE x \in E : TRUE
             rel == get_relationship(e)
         IN  Recorded(VarsAdd(d, VarsTarget(rel), VarsName(rel)), E \ {e})

\* lines 36-39
RecordVars ==
    /\ pc = "vars"
    /\ IF \E e \in edges : ~DictHas(g_nodes, VarsTarget(get_relationship(e)))
       THEN /\ pc' = "KeyError"
            /\ UNCHANGED g_nodes
       ELSE /\ g_nodes' = Recorded(g_nodes, edges)
            /\ pc' = "labels"
    /\ UNCHANGED <<tree, hashseed, g, prev, builds>>

RECURSIVE NodesAdded(_, _)
\* g after add_node for the entries d[i..]
NodesAdded(gr, d) ==
    IF d = <<>> THEN gr
    ELSE NodesAdded(add_node(gr, Head(d).k,
                             node_label(Head(d).k, Head(d), hashseed)),
                    Tail(d))

\* lines 121-130
AddNodes ==
    /\ pc = "labels"
    /\ g' = IF Len(nodes) > 0 THEN NodesAdded(g, g_nodes) ELSE g
    /\ pc' = "edges"
    /\ UNCHANGED <<tree, hashseed, g_nodes, prev, builds>>

RECURSIVE EdgesAdded(_, _)
\* g after add_edge for the edges in E
EdgesAdded(gr, E) ==
    IF E = {} THEN gr
    ELSE LET e == CHOOSE x \in E : TRUE
         IN  EdgesAdded(add_edge(gr, EdgeOf(get_relationship(e))), E \ {e})

\* lines 132-146
AddEdges ==
    /\ pc = "edges"
    /\ g' = EdgesAdded(g, edges)
    /\ pc' = "done"
    /\ UNCHANGED <<tree, hashseed, g_nodes, prev, builds>>

\* make_graph is called again on the same data tree, in the same interpreter
BuildAgain ==
    /\ pc = "done"
    /\ builds < MaxBuilds
    /\ prev' = g
    /\ g' = EmptyGraph
    /\ g_nodes' = <<>>
    /\ pc' = "start"
    /\ builds' = builds + 1
    /\ UNCHANGED <<tree, hashseed>>

\* the program is run again on the same data tree: a new interpreter, with
\* a hash seed of its own
Restart ==
    /\ pc = "done"
    /\ builds < MaxBuilds
    /\ prev' = g
    /\ g' = EmptyGraph
    /\ g_nodes' = <<>>
    /\ pc' = "start"
    /\ builds' = builds + 1
    /\ hashseed' \in HashSeeds
    /\ UNCHANGED tree

\* ------------------------------------------------------------ specification

NodeLists == DistinctSeqs(Datasets, Cardinality(Datasets))

Init ==
    /\ nodes \in NodeLists
    /\ root_node_name \in Roots
    /\ edges \in SetsUpTo(RelationshipsOver(Range(nodes)), MaxEdges)
    /\ \E D \in SUBSET (Range(nodes) \cup ({root_node_name} \ {NoRoot})) :
           subspaces \in [D -> DimLists]
    /\ hashseed \in HashSeeds
    /\ pc = "start"
    /\ g_nodes = <<>>
    /\ g = EmptyGraph
    /\ prev = EmptyGraph
    /\ builds = 1

Next == SeedNodes \/ RecordVars \/ AddNodes \/ AddEdges

Spec == Init /\ [][Next]_vars

NextRerun == Next \/ BuildAgain \/ Restart

SpecRerun == Init /\ [][NextRerun]_vars

\* ------------------------------------------------------------ the claims

\* the description make_graph has returned
Returned == pc = "done"

\* the label of node k of the description
LabelOf(gr, k) ==
    LET i == CHOOSE j \in 1..Len(gr.nodes) : gr.nodes[j].id = k
    IN  gr.nodes[i].label

\* the rows of a label that show a dimension or a variable
AttrRowsOf(label) == SelectSeq(label.cells, LAMBDA row : row.kind = "attr")

\* the ports of the cells of row
RowPorts(row) == {row.tds[j].port : j \in 1..Len(row.tds)} \ {NoPort}

\* the ports a label defines
PortsOf(label) ==
    ({label.header.port} \ {NoPort})
    \cup UNION {RowPorts(label.cells[i]) : i \in 1..Len(label.cells)}

\* the number of attribute rows of label with a cell of this port
RowsWith(label, port) ==
    LET rows == AttrRowsOf(label)
    IN  Cardinality({i \in 1..Len(rows) : port \in RowPorts(rows[i])})

\* the datasets that are an end of some relationship
Endpoints == UNION {{r.parent_data, r.child_data} : r \in edges}

\* the variables the relationships of the graph take from dataset k
OutgoingNames(k) == {r.parent_name : r \in {q \in edges : q.parent_data = k}}

\* edge e joins the datasets and the ports relationship r names
IsEdgeOf(e, r) ==
    /\ e.tail = r.parent_data
    /\ e.head = r.child_data
    /\ e.tailport = VarPort(r.parent_name)
    /\ e.headport = DimPort(r.child_name)

\* C1: the label of every node with k dimensions and m variables has exactly
\* max(k, m) attribute rows, and every dimension and every variable of the
\* node is in exactly one of them; also when k = 0 and m > 0.
C1_LabelRows ==
    pc \in {"edges", "done"} =>
        \A i \in 1..Len(g_nodes) :
            LET v == g_nodes[i]
                label == LabelOf(g, v.k)
            IN  /\ Len(AttrRowsOf(label)) = Max(Len(v.dims), Cardinality(v.vars))
                /\ \A d \in Range(v.dims) : RowsWith(label, DimPort(d)) = 1
                /\ \A n \in v.vars : RowsWith(label, VarPort(n)) = 1

\* C2: every edge of a returned description is bound to ports that exist:
\* its tail port is a port of the label of its parent node, its head port a
\* port of the label of its child node.
C2_PortsResolve ==
    Returned =>
        \A e \in g.edges :
            /\ e.tailport \in PortsOf(LabelOf(g, e.tail))
            /\ e.headport \in PortsOf(LabelOf(g, e.head))

\* C3: the edge emitted for a relationship has the hollow diamond exactly when
\* the relationship indexes by label, the plain arrowhead when it indexes by
\* position, and always points forward, from the parent to the child.
C3_ArrowStyle ==
    Returned =>
        /\ \A r \in edges :
               \E e \in g.edges :
                   /\ IsEdgeOf(e, r)
                   /\ e.dir = "forward"
                   /\ e.arrowhead = "odiamond" <=> r.indexing = "label"
                   /\ r.indexing = "position" => e.arrowhead = "normal"
        /\ \A e \in g.edges :
               /\ e.dir = "forward"
               /\ e.arrowhead \in {"odiamond", "normal"}
               /\ \E r \in edges :
                      /\ IsEdgeOf(e, r)
                      /\ e.arrowhead = "odiamond" <=> r.indexing = "label"

\* a description with an edge of either style, one by label, one by position
C3_BothStyles ==
    /\ Returned
    /\ \E r \in edges : r.indexing = "label"
    /\ \E r \in edges : r.indexing = "position"
    /\ \E e \in g.edges : e.arrowhead = "odiamond"
    /\ \E e \in g.edges : e.arrowhead = "normal"

\* C4: a relationship whose indexing is neither label nor position makes the
\* build fail: no description is returned.
C4_UnsupportedIndexingFails ==
    (\E r \in edges : r.indexing \notin {"label", "position"}) => ~Returned

\* C5: when the child_data or the parent_data of some relationship is no key
\* of the subspace mapping, the build fails with a KeyError and nothing is
\* built; no returned description has an edge with an end without a subspace.
C5_MissingSubspaceFails ==
    /\ (\E r \in edges : {r.parent_data, r.child_data} \ DOMAIN subspaces # {})
           => /\ pc \in {"start", "KeyError"}
              /\ g = EmptyGraph
    /\ Returned =>
           \A e \in g.edges : {e.tail, e.head} \subseteq DOMAIN subspaces

\* a build that failed on a relationship whose child has no subspace, while
\* its parent has one
C5_FailedOnChild ==
    /\ pc = "KeyError"
    /\ \E r \in edges :
           /\ r.child_data \notin DOMAIN subspaces
           /\ r.parent_data \in DOMAIN subspaces

\* the root, when one is designated and the graph has a node (lines 23-24)
SeededRoot == IF Len(nodes) > 0 THEN {root_node_name} \ {NoRoot} ELSE {}

\* C6 as stated: the nodes of the description are exactly the datasets that
\* are an end of some edge, and the root; a dataset of the graph that is in
\* no edge and is not the root is not rendered.
C6_OnlyConnectedNodes ==
    Returned =>
        {g.nodes[i].id : i \in 1..Len(g.nodes)} = Endpoints \cup SeededRoot

\* C6, amended: the nodes of the description are exactly the nodes of the
\* graph, and the root when one is designated and the graph has a node, each
\* once; so a dataset of the graph that no edge joins is rendered too.
C6_AllGraphNodes ==
    Returned =>
        /\ {g.nodes[i].id : i \in 1..Len(g.nodes)}
               = Range(nodes) \cup SeededRoot
        /\ \A i, j \in 1..Len(g.nodes) :
               g.nodes[i].id = g.nodes[j].id => i = j

\* a description with a node for a dataset that is no root and no end of an
\* edge, beside an edge
C6_IsolatedRendered ==
    /\ Returned
    /\ edges # {}
    /\ \E k \in Range(nodes) \ (Endpoints \cup {root_node_name}) :
           GraphHasNode(g, k)

\* C7: with a root designated and a graph that has nodes, the root is emitted
\* once and before every other node; a graph without nodes yields no node and
\* no edge, the root included.
C7_RootFirstOnce ==
    Returned =>
        /\ (root_node_name # NoRoot /\ Len(nodes) > 0) =>
               /\ g.nodes[1].id = root_node_name
               /\ Cardinality({i \in 1..Len(g.nodes) :
                                   g.nodes[i].id = root_node_name}) = 1
        /\ Len(nodes) = 0 => g = EmptyGraph

\* a description whose root is a node of the graph, not its first, and the
\* child of a relationship
C7_RootAmongNodes ==
    /\ Returned
    /\ Len(nodes) > 1
    /\ root_node_name \in Range(nodes)
    /\ nodes[1] # root_node_name
    /\ \E r \in edges : r.child_data = root_node_name

\* C8: one edge is emitted per relationship, and the edges of two
\* relationships have different keys: relationships between the same two
\* datasets yield separate edges, and a relationship of a dataset with itself
\* yields exactly one self-loop.
C8_OneEdgePerRelationship ==
    Returned =>
        /\ Cardinality(g.edges) = Cardinality(edges)
        /\ \A e, f \in g.edges : e # f => e.key # f.key
        /\ \A r \in edges :
               Cardinality({e \in g.edges :
                               IsEdgeOf(e, r) /\ e.key = Repr(r)}) = 1

\* a description of two relationships of one dataset with itself
C8_ParallelSelfLoops ==
    /\ Returned
    /\ \E r, q \in edges :
           /\ r # q
           /\ r.parent_data = r.child_data
           /\ q.parent_data = r.parent_data
           /\ q.child_data = r.child_data

\* C9: when the labels are built, and from then on, the variables of every
\* node are exactly the parent_name of the relationships whose parent_data is
\* that node, none for a dataset that is no parent; and no label is built
\* before the pass over the edges has ended.
C9_VarsBeforeLabels ==
    /\ pc \in {"labels", "edges", "done"} =>
           \A i \in 1..Len(g_nodes) :
               g_nodes[i].vars = OutgoingNames(g_nodes[i].k)
    /\ pc \in {"start", "vars", "labels"} => g.nodes = <<>>

\* the labels are about to be built for a parent with two variables and a
\* dataset that is only a child
C9_LabelsDue ==
    /\ pc = "labels"
    /\ \E i, j \in 1..Len(g_nodes) :
           /\ Cardinality(g_nodes[i].vars) = 2
           /\ g_nodes[j].vars = {}
           /\ \E r \in edges : r.child_data = g_nodes[j].k

\* C10: two builds of the same unmodified data tree return the same
\* description, the order of the variables in the label rows included.
C10_Deterministic ==
    (Returned /\ builds > 1) => g = prev

====
